---- MODULE Spec2Model ----
(***************************************************************************)
(* Model of the tailorit-backend filesystem core: folder and file CRUD     *)
(* over a metadata store (tables "folders" and "files") and a blob store   *)
(* (one bucket), in its two implementations:                               *)
(*   "svc": FilesystemService -> FilesystemRepository -> SupabaseFilesystem *)
(*          and StorageRepository -> SupabaseStorage                        *)
(*   "api": api/endpoints/{folders,files}.py -> SupabasePostgres and        *)
(*          SupabaseStorage                                                 *)
(* One atomic step per call into a store (a network round trip); every     *)
(* such call may raise (a store fault).                                    *)
(***************************************************************************)
EXTENDS Integers, Sequences, FiniteSets, TLC

VARIABLES folders, files, blobs, nextFolderId, nextFileId, req, served

vars == <<folders, files, blobs, nextFolderId, nextFileId, req, served>>

(***************************************************************************)
(* Bounds of the model.                                                    *)
(***************************************************************************)
\* folder rows inserted in one run (the store hands out ids 1..MaxFolders)
MaxFolders == 2
\* file rows inserted in one run (the store hands out ids 1..MaxFiles)
MaxFiles == 2
\* requests served in one run
MaxRequests == 3
\* folder rows in the tables a traversal starts from
MaxBfsFolders == 5
\* folder rows and file rows in the tables a tree is built from
MaxTreeFolders == 3
MaxTreeFiles == 3
MaxMovePops == 4

\* Python's None (SQL NULL) for an id-valued field
Null == 0

Users == {"uA", "uB"}
FolderNames == {"x", "y"}
FolderIds == 1..MaxFolders
ParentIds == {Null} \cup FolderIds
FileIds == 1..MaxFiles
Impls == {"svc", "api"}
Slots == {1, 2}

(***************************************************************************)
(* Exceptions.  details is a one-entry dict: key dkey, and a value that is *)
(* an id (did) or a text (dtext).                                          *)
(***************************************************************************)
NoError == [kind |-> "ok", message |-> "", dkey |-> "", did |-> Null, dtext |-> ""]

DatabaseError(msg, key, text) ==
    [kind |-> "DatabaseError", message |-> msg, dkey |-> key, did |-> Null, dtext |-> text]

NotFoundError(msg, key, id) ==
    [kind |-> "NotFoundError", message |-> msg, dkey |-> key, did |-> id, dtext |-> ""]

StorageError(msg, key, text) ==
    [kind |-> "StorageError", message |-> msg, dkey |-> key, did |-> Null, dtext |-> text]

\* what a failing store client call raises
StoreFault == [kind |-> "Exception", message |-> "store fault", dkey |-> "", did |-> Null, dtext |-> ""]

\* str(e)
Str(e) == e.message

\* the decorator around a synchronous function named fname
db_error_handler(fname, e) ==
    IF e.kind \in {"DatabaseError", "NotFoundError"}
    THEN e
    ELSE DatabaseError("Database operation failed in " \o fname, "error", Str(e))

(***************************************************************************)
(* Names, storage paths, rows and requests.                                *)
(***************************************************************************)
\* a file name "dir/stem.ext" (dir may be empty)
FileName(dir, stem, ext) == [dir |-> dir, stem |-> stem, ext |-> ext]
NoName == FileName("", "", "")

\* os.path.basename
Basename(n) == [n EXCEPT !.dir = ""]

\* str.lower on an extension
Lower(ext) == IF ext = ".TEX" THEN ".tex" ELSE ext

\* os.path.splitext(n)[1]: a base name that is nothing but ".ext" is all
\* root and has no extension
Splitext(n) == IF n.stem = "" THEN "" ELSE n.ext

\* upload_file: os.path.splitext(file_path)[1].lower() == ".tex"
IsTex(n) == Lower(Splitext(n)) = ".tex"

\* the endpoints: filename.lower().endswith(".tex")
EndsWithTex(n) == Lower(n.ext) = ".tex"

\* f"{user_id}/" + f"{folder_id}/" (if folder_id) + basename(file_path)
StoragePath(n, u, folder) == [user |-> u, folder |-> folder, base |-> Basename(n)]
NoPath == [user |-> "", folder |-> Null, base |-> NoName]

\* bytes of a file; NoContent is Python's None
Contents == {"c1", "c2"}
NoContent == ""

FolderRow(id, u, n, p) == [id |-> id, user_id |-> u, name |-> n, parent_id |-> p]

FileRow(id, u, n, folder, path) ==
    [id |-> id, user_id |-> u, name |-> n, folder_id |-> folder, storage_path |-> path]

Blob(path, content) == [path |-> path, content |-> content]

\* model_dump(exclude_unset=True) of a FolderUpdate / FileUpdate body
Patch(hasName, n, hasParent, p) ==
    [has_name |-> hasName, name |-> n, has_parent |-> hasParent, parent |-> p]

Snapshot == [folders |-> folders, files |-> files, blobs |-> blobs]

\* a request: its arguments (op .. content), its position (pc), its local
\* variables (cur: the row get_file returned, path: the computed storage
\* path, uploaded: upload_file returned, err: the exception being handled),
\* its outcome (res, data), and for the properties the stores as they were
\* when it started (pre) and the store calls it made (log).  A traversal
\* keeps its deque (queue), the parent ids it took from it (popped), its
\* all_folders (list) and the tree it built (tree)
EmptyTree == [folders |-> <<>>, files |-> {}, nodes |-> {}]

IdleReq ==
    [op |-> "none", impl |-> "svc", user |-> "", id |-> Null,
     fname |-> "", name |-> NoName, filename |-> NoName,
     parent |-> Null, patch |-> Patch(FALSE, "", FALSE, Null), fpatch |-> Patch(FALSE, NoName, FALSE, Null),
     content |-> NoContent,
     given |-> NoPath, pc |-> "idle", cur |-> {}, path |-> NoPath, uploaded |-> FALSE, err |-> NoError,
     res |-> NoError, data |-> {},
     pre |-> [folders |-> {}, files |-> {}, blobs |-> {}], log |-> <<>>,
     queue |-> <<>>, popped |-> <<>>, list |-> <<>>, tree |-> EmptyTree]

NewReq(op, impl, u, pc) ==
    [IdleReq EXCEPT !.op = op, !.impl = impl, !.user = u, !.pc = pc, !.pre = Snapshot]

\* no request is running in slot r
Resting(r) == req[r].pc = "idle"

\* slot r takes the next request of the run
Accepts(r) == Resting(r) /\ served < MaxRequests /\ served' = served + 1

\* the request returns rows, raises e, or goes on to its next store call
Returned(q, rows) == [q EXCEPT !.pc = "done", !.res = NoError, !.data = rows]
Raised(q, e) == [q EXCEPT !.pc = "done", !.res = e, !.data = {}]
Goto(q, pc) == [q EXCEPT !.pc = pc]

\* one call into a store, on a table or on a storage path
Logged(q, call, path, ok) ==
    [q EXCEPT !.log = Append(@, [call |-> call, path |-> path, ok |-> ok])]

(***************************************************************************)
(* Metadata store: table "folders".                                        *)
(***************************************************************************)
\* get_folders that reads "no parent given" as "any parent", the way
\* get_files reads "no folder given"
SelectFolders_AnyParent(u, p) ==
    {f \in folders : f.user_id = u /\ (p # Null => f.parent_id = p)}

\* get_folders: .eq("user_id", u) and .is_("parent_id", None) or
\* .eq("parent_id", str(p))
SelectFolders(u, p) ==
    {f \in folders : f.user_id = u /\ (IF p = Null THEN f.parent_id = Null ELSE f.parent_id = p)}

\* folder_exists that filters with .eq("parent_id", None) at the root: an
\* equality with null matches no row
FolderExistsQuery_EqNull(u, n, p) ==
    {f \in folders : /\ f.user_id = u
                     /\ f.name = n
                     /\ p # Null
                     /\ f.parent_id = p} # {}

\* folder_exists: .eq("user_id", u).eq("name", n) and .eq("parent_id", str(p))
\* if p is set, .is_("parent_id", "null") if not
FolderExistsQuery(u, n, p) ==
    {f \in folders : /\ f.user_id = u
                     /\ f.name = n
                     /\ (IF p # Null THEN f.parent_id = p ELSE f.parent_id = Null)} # {}

\* a folder filter by id alone
MatchFolder_AnyOwner(id, u) == {f \in folders : f.id = id}

\* the rows an update / delete with .eq("id", id).eq("user_id", u) matches
MatchFolder(id, u) == {f \in folders : f.id = id /\ f.user_id = u}

ApplyFolderPatch(f, patch) ==
    [f EXCEPT !.name = IF patch.has_name THEN patch.name ELSE @,
              !.parent_id = IF patch.has_parent THEN patch.parent ELSE @]

(***************************************************************************)
(* Folder operations: FilesystemService ("svc"), and the /folders          *)
(* endpoints over SupabasePostgres ("api").                                *)
(***************************************************************************)
InFlight(op) == Cardinality({s \in Slots : req[s].op = op /\ ~Resting(s)})

\* the table takes MaxFolders rows: past that, only a create of a name that
\* is taken (none of the operations run beside it removes a row) starts
StartCreateFolder(r, impl, u, n, p) ==
    /\ Accepts(r)
    /\ \/ nextFolderId + InFlight("create_folder") <= MaxFolders
       \/ FolderExistsQuery(u, n, p)
    /\ req' = [req EXCEPT ![r] =
                 [NewReq("create_folder", impl, u, "folder_exists") EXCEPT !.fname = n, !.parent = p]]
    /\ UNCHANGED <<folders, files, blobs, nextFolderId, nextFileId>>

DuplicateFolder(impl) ==
    IF impl = "svc"
    THEN DatabaseError("Folder with the same name already exists in this location",
                       "error", "DUPLICATE_FOLDER")
    ELSE DatabaseError("A folder with this name already exists in this location",
                       "error_code", "DUPLICATE_FOLDER")

\* create_folder, first store call: the existence check
FolderExistsStep(r) ==
    LET q == req[r] IN
    /\ q.pc = "folder_exists"
    /\ \E fault \in BOOLEAN :
        LET q1 == Logged(q, "folder_exists", NoPath, ~fault) IN
        req' = [req EXCEPT ![r] =
            IF fault
            THEN Raised(q1, IF q.impl = "svc"
                            THEN db_error_handler("folder_exists", StoreFault)
                            ELSE DatabaseError("Error checking folder existence", "error", Str(StoreFault)))
            ELSE IF FolderExistsQuery(q.user, q.fname, q.parent)
                 THEN Raised(q1, DuplicateFolder(q.impl))
                 ELSE Goto(q1, "folder_insert")]
    /\ UNCHANGED <<folders, files, blobs, nextFolderId, nextFileId, served>>

\* the insert into a table that holds a unique index on
\* (user_id, parent_id, name)
FolderInsertStep_UniqueIndex(r) ==
    LET q == req[r] IN
    /\ q.pc = "folder_insert"
    /\ \E fault \in BOOLEAN :
        LET refused == fault \/ FolderExistsQuery(q.user, q.fname, q.parent)
            q1 == Logged(q, "folder_insert", NoPath, ~refused)
            row == FolderRow(nextFolderId, q.user, q.fname, q.parent)
        IN IF refused
           THEN /\ req' = [req EXCEPT ![r] =
                            Raised(q1, IF q.impl = "svc"
                                       THEN db_error_handler("create_folder", StoreFault)
                                       ELSE DatabaseError("Error creating folder", "error", Str(StoreFault)))]
                /\ UNCHANGED <<folders, nextFolderId>>
           ELSE /\ folders' = folders \cup {row}
                /\ nextFolderId' = nextFolderId + 1
                /\ req' = [req EXCEPT ![r] = Returned(q1, {row})]
    /\ UNCHANGED <<files, blobs, nextFileId, served>>

\* create_folder, second store call: the insert
FolderInsertStep(r) ==
    LET q == req[r] IN
    /\ q.pc = "folder_insert"
    /\ \E fault \in BOOLEAN :
        LET q1 == Logged(q, "folder_insert", NoPath, ~fault)
            row == FolderRow(nextFolderId, q.user, q.fname, q.parent)
        IN IF fault
           THEN /\ req' = [req EXCEPT ![r] =
                            Raised(q1, IF q.impl = "svc"
                                       THEN db_error_handler("create_folder", StoreFault)
                                       ELSE DatabaseError("Error creating folder", "error", Str(StoreFault)))]
                /\ UNCHANGED <<folders, nextFolderId>>
           ELSE /\ folders' = folders \cup {row}
                /\ nextFolderId' = nextFolderId + 1
                /\ req' = [req EXCEPT ![r] = Returned(q1, {row})]
    /\ UNCHANGED <<files, blobs, nextFileId, served>>

StartUpdateFolder(r, impl, u, id, patch) ==
    /\ Accepts(r)
    /\ req' = [req EXCEPT ![r] =
                 [NewReq("update_folder", impl, u, "folder_update") EXCEPT !.id = id, !.patch = patch]]
    /\ UNCHANGED <<folders, files, blobs, nextFolderId, nextFileId>>

FolderNotFound(id) == NotFoundError("Folder not found or unauthorized", "folder_id", id)

\* an update_folder that matches the row by id alone
FolderUpdateStep_AnyOwner(r) ==
    LET q == req[r] IN
    /\ q.pc = "folder_update"
    /\ \E fault \in BOOLEAN :
        LET q1 == Logged(q, "folder_update", NoPath, ~fault)
            hit == MatchFolder_AnyOwner(q.id, q.user)
            new == {ApplyFolderPatch(f, q.patch) : f \in hit}
        IN IF fault
           THEN /\ req' = [req EXCEPT ![r] =
                            Raised(q1, IF q.impl = "svc"
                                       THEN db_error_handler("update_folder", StoreFault)
                                       ELSE DatabaseError("Error updating folder", "error",
                                                          "Error updating folder"))]
                /\ UNCHANGED folders
           ELSE /\ folders' = (folders \ hit) \cup new
                /\ req' = [req EXCEPT ![r] =
                            IF new = {} THEN Raised(q1, FolderNotFound(q.id)) ELSE Returned(q1, new)]
    /\ UNCHANGED <<files, blobs, nextFolderId, nextFileId, served>>

\* update_folder: one store call
FolderUpdateStep(r) ==
    LET q == req[r] IN
    /\ q.pc = "folder_update"
    /\ \E fault \in BOOLEAN :
        LET q1 == Logged(q, "folder_update", NoPath, ~fault)
            hit == MatchFolder(q.id, q.user)
            new == {ApplyFolderPatch(f, q.patch) : f \in hit}
        IN IF fault
           THEN /\ req' = [req EXCEPT ![r] =
                            Raised(q1, IF q.impl = "svc"
                                       THEN db_error_handler("update_folder", StoreFault)
                                       ELSE DatabaseError("Error updating folder", "error",
                                                          "Error updating folder"))]
                /\ UNCHANGED folders
           ELSE /\ folders' = (folders \ hit) \cup new
                /\ req' = [req EXCEPT ![r] =
                            IF new = {} THEN Raised(q1, FolderNotFound(q.id)) ELSE Returned(q1, new)]
    /\ UNCHANGED <<files, blobs, nextFolderId, nextFileId, served>>

StartDeleteFolder(r, impl, u, id) ==
    /\ Accepts(r)
    /\ req' = [req EXCEPT ![r] = [NewReq("delete_folder", impl, u, "folder_delete") EXCEPT !.id = id]]
    /\ UNCHANGED <<folders, files, blobs, nextFolderId, nextFileId>>

\* a delete_folder that takes the child folders and the files of the folder
\* with it
FolderDeleteStep_Cascade(r) ==
    LET q == req[r] IN
    /\ q.pc = "folder_delete"
    /\ \E fault \in BOOLEAN :
        LET q1 == Logged(q, "folder_delete", NoPath, ~fault)
            hit == MatchFolder(q.id, q.user)
        IN IF fault
           THEN /\ req' = [req EXCEPT ![r] =
                            Raised(q1, IF q.impl = "svc"
                                       THEN db_error_handler("delete_folder", StoreFault)
                                       ELSE DatabaseError("Error deleting folder", "error",
                                                          "Error deleting folder"))]
                /\ UNCHANGED <<folders, files>>
           ELSE /\ folders' = {f \in folders \ hit : hit = {} \/ f.parent_id # q.id}
                /\ files' = {f \in files : hit = {} \/ f.folder_id # q.id}
                /\ req' = [req EXCEPT ![r] =
                            IF hit = {} THEN Raised(q1, FolderNotFound(q.id)) ELSE Returned(q1, hit)]
    /\ UNCHANGED <<blobs, nextFolderId, nextFileId, served>>

\* delete_folder: one store call
FolderDeleteStep(r) ==
    LET q == req[r] IN
    /\ q.pc = "folder_delete"
    /\ \E fault \in BOOLEAN :
        LET q1 == Logged(q, "folder_delete", NoPath, ~fault)
            hit == MatchFolder(q.id, q.user)
        IN IF fault
           THEN /\ req' = [req EXCEPT ![r] =
                            Raised(q1, IF q.impl = "svc"
                                       THEN db_error_handler("delete_folder", StoreFault)
                                       ELSE DatabaseError("Error deleting folder", "error",
                                                          "Error deleting folder"))]
                /\ UNCHANGED folders
           ELSE /\ folders' = folders \ hit
                /\ req' = [req EXCEPT ![r] =
                            IF hit = {} THEN Raised(q1, FolderNotFound(q.id)) ELSE Returned(q1, hit)]
    /\ UNCHANGED <<files, blobs, nextFolderId, nextFileId, served>>

StartGetFolders(r, impl, u, p) ==
    /\ Accepts(r)
    /\ req' = [req EXCEPT ![r] = [NewReq("get_folders", impl, u, "folder_select") EXCEPT !.parent = p]]
    /\ UNCHANGED <<folders, files, blobs, nextFolderId, nextFileId>>

\* get_folders: one store call
FolderSelectStep(r) ==
    LET q == req[r] IN
    /\ q.pc = "folder_select"
    /\ \E fault \in BOOLEAN :
        LET q1 == Logged(q, "folder_select", NoPath, ~fault) IN
        req' = [req EXCEPT ![r] =
            IF fault
            THEN Raised(q1, IF q.impl = "svc"
                            THEN db_error_handler("get_folders", StoreFault)
                            ELSE DatabaseError("Error fetching folders", "error", "Error fetching folders"))
            ELSE Returned(q1, SelectFolders(q.user, q.parent))]
    /\ UNCHANGED <<folders, files, blobs, nextFolderId, nextFileId, served>>

(***************************************************************************)
(* Metadata store: table "files".  Blob store: one bucket.                 *)
(***************************************************************************)
\* file_exists: .eq("user_id", u).eq("name", n) and .eq("folder_id", ..)
\* if folder is set, .is_("folder_id", "null") if not
FileExistsQuery(u, n, folder) ==
    {f \in files : /\ f.user_id = u
                   /\ f.name = n
                   /\ (IF folder # Null THEN f.folder_id = folder ELSE f.folder_id = Null)} # {}

\* a file filter by id alone
MatchFile_AnyOwner(id, u) == {f \in files : f.id = id}

\* get_files: .eq("user_id", u), and .eq("folder_id", str(folder)) only
\* "if folder_id"
SelectFiles(u, folder) ==
    {f \in files : f.user_id = u /\ (folder # Null => f.folder_id = folder)}

\* the rows a select / update / delete with .eq("id", id).eq("user_id", u) matches
MatchFile(id, u) == {f \in files : f.id = id /\ f.user_id = u}

\* an update that keeps the storage path in step with the name and folder
ApplyFilePatch_MovesPath(f, patch, setPath, path) ==
    LET n == IF patch.has_name THEN patch.name ELSE f.name
        p == IF patch.has_parent THEN patch.parent ELSE f.folder_id
    IN [f EXCEPT !.name = n,
                 !.folder_id = p,
                 !.storage_path = IF setPath THEN path ELSE StoragePath(n, f.user_id, p)]

\* update_data of update_file: the fields of the body that are set, and in
\* the service the storage path upload_file returned
ApplyFilePatch(f, patch, setPath, path) ==
    [f EXCEPT !.name = IF patch.has_name THEN patch.name ELSE @,
              !.folder_id = IF patch.has_parent THEN patch.parent ELSE @,
              !.storage_path = IF setPath THEN path ELSE @]

EmptyUpdate(patch, setPath) == ~patch.has_name /\ ~patch.has_parent /\ ~setPath

BlobExists(path) == \E b \in blobs : b.path = path
PutBlob(path, content) == {b \in blobs : b.path # path} \cup {Blob(path, content)}
RemoveBlob(path) == {b \in blobs : b.path # path}

(***************************************************************************)
(* What each layer turns an exception into.                                *)
(***************************************************************************)
InvalidFileType == StorageError("Invalid file type", "error", "Only .tex files are allowed")

DuplicateFile ==
    DatabaseError("File with the same name already exists in this folder", "error", "DUPLICATE_FILE")

DuplicateBlob ==
    StorageError("File with the same name already exists in this location", "error", "DUPLICATE_FILE")

FileNotFound(id) == NotFoundError("File not found or unauthorized", "file_id", id)

\* the bucket refuses to write over an object (upload without upsert)
StoreRefusal == [kind |-> "Exception", message |-> "The resource already exists",
                 dkey |-> "", did |-> Null, dtext |-> ""]

\* the except clauses at the end of the /files endpoints
ApiUpdateFileExcept(e) ==
    IF e.kind = "NotFoundError" THEN e ELSE DatabaseError("Error updating file", "error", Str(e))

ApiDeleteFileExcept(e) ==
    IF e.kind = "NotFoundError" THEN e ELSE StorageError("Error deleting file", "error", Str(e))

ApiDownloadFileExcept(e) ==
    IF e.kind = "NotFoundError" THEN e ELSE StorageError("Error downloading file", "error", Str(e))

ApiGetFileUrlExcept(e) ==
    IF e.kind = "NotFoundError" THEN e ELSE StorageError("Error generating file URL", "error", Str(e))

\* an exception e leaves the body of the handler of request q.  The service's
\* async methods return their coroutine to db_error_handler before the body
\* runs, so the decorator never sees what the body raises.
Escapes(q, e) ==
    IF q.impl = "svc" THEN e
    ELSE CASE q.op = "update_file" -> ApiUpdateFileExcept(e)
           [] q.op = "delete_file" -> ApiDeleteFileExcept(e)
           [] q.op = "download_file" -> ApiDownloadFileExcept(e)
           [] q.op = "get_file_url" -> ApiGetFileUrlExcept(e)
           [] OTHER -> e

\* a failed call of the metadata store client inside the function fname:
\* FilesystemRepository's decorator in the service, SupabasePostgres's own
\* except clause (with its message msg) under the endpoints
MetadataFault(q, fname, msg) ==
    IF q.impl = "svc"
    THEN db_error_handler(fname, StoreFault)
    ELSE DatabaseError(msg, "error", Str(StoreFault))

(***************************************************************************)
(* create_file.                                                            *)
(***************************************************************************)
\* svc: FilesystemService.create_file(file_data, user_id, file_content)
\* api: POST /files with the upload's filename, the form's name (the
\*      filename when no name is given) and folder_id
StartCreateFile(r, impl, u, filename, n, folder, c) ==
    /\ Accepts(r)
    /\ nextFileId + InFlight("create_file") <= MaxFiles
    /\ LET q == [NewReq("create_file", impl, u, "file_exists") EXCEPT
                    !.name = n, !.filename = filename, !.parent = folder, !.content = c]
       IN req' = [req EXCEPT ![r] =
            IF impl = "svc"
            THEN q
            ELSE IF ~EndsWithTex(filename) \/ ~IsTex(n)
                 THEN Raised(q, InvalidFileType)
                 ELSE [Goto(q, "bucket_list") EXCEPT !.path = StoragePath(n, u, folder)]]
    /\ UNCHANGED <<folders, files, blobs, nextFolderId, nextFileId>>

\* FilesystemService.create_file with a FileCreate whose storage_path field
\* (required by the model class) the caller has filled in
StartCreateFileGiven(r, u, n, folder, c, given) ==
    /\ Accepts(r)
    /\ nextFileId + InFlight("create_file") <= MaxFiles
    /\ req' = [req EXCEPT ![r] =
                 [NewReq("create_file", "svc", u, "file_exists") EXCEPT
                    !.name = n, !.filename = n, !.parent = folder, !.content = c, !.given = given]]
    /\ UNCHANGED <<folders, files, blobs, nextFolderId, nextFileId>>

\* the existence check on table files: the first call of the service's
\* create_file; under the endpoint the first call of SupabasePostgres.create_file,
\* after the upload
FileExistsStep(r) ==
    LET q == req[r] IN
    /\ q.pc = "file_exists"
    /\ \E fault \in BOOLEAN :
        LET q1 == Logged(q, "file_exists", NoPath, ~fault)
            e == IF fault
                 THEN MetadataFault(q, "file_exists", "Error checking file existence")
                 ELSE DuplicateFile
        IN req' = [req EXCEPT ![r] =
            IF fault \/ FileExistsQuery(q.user, q.name, q.parent)
            THEN IF q.impl = "svc" THEN Raised(q1, e) ELSE [Goto(q1, "cleanup") EXCEPT !.err = e]
            ELSE IF q.impl = "api" THEN Goto(q1, "file_insert")
                 ELSE IF ~IsTex(q.name) THEN Raised(q1, InvalidFileType)
                      ELSE [Goto(q1, "bucket_list") EXCEPT !.path = StoragePath(q.name, q.user, q.parent)]]
    /\ UNCHANGED <<folders, files, blobs, nextFolderId, nextFileId, served>>

\* SupabaseStorage._file_exists_in_bucket inside upload_file: an error of
\* the listing is logged and read as "does not exist"
BucketListStep(r) ==
    LET q == req[r] IN
    /\ q.pc = "bucket_list"
    /\ \E fault \in BOOLEAN :
        LET q1 == Logged(q, "bucket_list", q.path, ~fault) IN
        req' = [req EXCEPT ![r] =
            IF ~fault /\ BlobExists(q.path)
            THEN Raised(q1, Escapes(q, DuplicateBlob))
            ELSE Goto(q1, "blob_upload")]
    /\ UNCHANGED <<folders, files, blobs, nextFolderId, nextFileId, served>>

\* where a request goes on when upload_file has returned
AfterUpload(q) ==
    IF q.op = "update_file" THEN "file_update"
    ELSE IF q.impl = "svc" THEN "file_insert" ELSE "file_exists"

\* the upload inside upload_file.  The bucket may refuse to write over an
\* existing object or overwrite it: the code sends no upsert option and the
\* bucket's answer is not this repository's.
BlobUploadStep(r) ==
    LET q == req[r] IN
    /\ q.pc = "blob_upload"
    /\ \E outcome \in {"ok", "fault", "refused"} :
        LET q1 == Logged(q, "blob_upload", q.path, outcome = "ok") IN
        CASE outcome = "ok" ->
                /\ blobs' = PutBlob(q.path, q.content)
                /\ req' = [req EXCEPT ![r] = [Goto(q1, AfterUpload(q)) EXCEPT !.uploaded = TRUE]]
          [] outcome = "fault" ->
                /\ req' = [req EXCEPT ![r] =
                            Raised(q1, Escapes(q, StorageError("Error uploading file", "error", Str(StoreFault))))]
                /\ UNCHANGED blobs
          [] outcome = "refused" ->
                /\ BlobExists(q.path)
                /\ req' = [req EXCEPT ![r] =
                            Raised(q1, Escapes(q, StorageError("Error uploading file", "error", Str(StoreRefusal))))]
                /\ UNCHANGED blobs
    /\ UNCHANGED <<folders, files, nextFolderId, nextFileId, served>>

\* an insert that keeps the storage_path the caller put in the FileCreate
FileInsertStep_KeepsGiven(r) ==
    LET q == req[r] IN
    /\ q.pc = "file_insert"
    /\ \E fault \in BOOLEAN :
        LET q1 == Logged(q, "file_insert", NoPath, ~fault)
            data == FileRow(nextFileId, q.user, q.name, q.parent, q.given)
            row == IF q.given = NoPath THEN [data EXCEPT !.storage_path = q.path] ELSE data
            e == MetadataFault(q, "create_file", "Error creating file")
        IN IF fault
           THEN /\ req' = [req EXCEPT ![r] =
                            IF q.impl = "svc" THEN Raised(q1, e) ELSE [Goto(q1, "cleanup") EXCEPT !.err = e]]
                /\ UNCHANGED <<files, nextFileId>>
           ELSE /\ files' = files \cup {row}
                /\ nextFileId' = nextFileId + 1
                /\ req' = [req EXCEPT ![r] = Returned(q1, {row})]
    /\ UNCHANGED <<folders, blobs, nextFolderId, served>>

\* the insert into table files: model_dump() of the FileCreate, with
\* storage_path set to what upload_file returned.  The service lets a
\* failure escape; the endpoint goes on to clean up the uploaded blob.
FileInsertStep(r) ==
    LET q == req[r] IN
    /\ q.pc = "file_insert"
    /\ \E fault \in BOOLEAN :
        LET q1 == Logged(q, "file_insert", NoPath, ~fault)
            data == FileRow(nextFileId, q.user, q.name, q.parent, q.given)
            row == [data EXCEPT !.storage_path = q.path]
            e == MetadataFault(q, "create_file", "Error creating file")
        IN IF fault
           THEN /\ req' = [req EXCEPT ![r] =
                            IF q.impl = "svc" THEN Raised(q1, e) ELSE [Goto(q1, "cleanup") EXCEPT !.err = e]]
                /\ UNCHANGED <<files, nextFileId>>
           ELSE /\ files' = files \cup {row}
                /\ nextFileId' = nextFileId + 1
                /\ req' = [req EXCEPT ![r] = Returned(q1, {row})]
    /\ UNCHANGED <<folders, blobs, nextFolderId, served>>

\* a clean-up whose own failure is raised in place of the database error
CleanupStep_Masks(r) ==
    LET q == req[r] IN
    /\ q.pc = "cleanup"
    /\ \E fault \in BOOLEAN :
        /\ blobs' = IF fault THEN blobs ELSE RemoveBlob(q.path)
        /\ req' = [req EXCEPT ![r] =
                    Raised(Logged(q, "blob_remove", q.path, ~fault),
                           IF fault
                           THEN StorageError("Error deleting file", "error", Str(StoreFault))
                           ELSE DatabaseError("Error creating file in database", "error", Str(q.err)))]
    /\ UNCHANGED <<folders, files, nextFolderId, nextFileId, served>>

\* POST /files, except clause around postgres.create_file: delete the
\* uploaded blob (a failure of that is logged), then raise the database error
CleanupStep(r) ==
    LET q == req[r] IN
    /\ q.pc = "cleanup"
    /\ \E fault \in BOOLEAN :
        /\ blobs' = IF fault THEN blobs ELSE RemoveBlob(q.path)
        /\ req' = [req EXCEPT ![r] =
                    Raised(Logged(q, "blob_remove", q.path, ~fault),
                           DatabaseError("Error creating file in database", "error", Str(q.err)))]
    /\ UNCHANGED <<folders, files, nextFolderId, nextFileId, served>>

(***************************************************************************)
(* get_file, update_file, delete_file, download_file, get_file_url.        *)
(***************************************************************************)
StartGetFile(r, u, id) ==
    /\ Accepts(r)
    /\ req' = [req EXCEPT ![r] = [NewReq("get_file", "svc", u, "file_get") EXCEPT !.id = id]]
    /\ UNCHANGED <<folders, files, blobs, nextFolderId, nextFileId>>

\* filename is the name of the uploaded content under PUT /files/{id}
StartUpdateFile(r, impl, u, id, patch, filename, c) ==
    /\ Accepts(r)
    /\ req' = [req EXCEPT ![r] =
                 [NewReq("update_file", impl, u, "file_get") EXCEPT
                    !.id = id, !.fpatch = patch, !.filename = filename, !.content = c]]
    /\ UNCHANGED <<folders, files, blobs, nextFolderId, nextFileId>>

StartDeleteFile(r, impl, u, id) ==
    /\ Accepts(r)
    /\ req' = [req EXCEPT ![r] = [NewReq("delete_file", impl, u, "file_get") EXCEPT !.id = id]]
    /\ UNCHANGED <<folders, files, blobs, nextFolderId, nextFileId>>

StartDownloadFile(r, impl, u, id) ==
    /\ Accepts(r)
    /\ req' = [req EXCEPT ![r] = [NewReq("download_file", impl, u, "file_get") EXCEPT !.id = id]]
    /\ UNCHANGED <<folders, files, blobs, nextFolderId, nextFileId>>

StartGetFileUrl(r, impl, u, id) ==
    /\ Accepts(r)
    /\ req' = [req EXCEPT ![r] = [NewReq("get_file_url", impl, u, "file_get") EXCEPT !.id = id]]
    /\ UNCHANGED <<folders, files, blobs, nextFolderId, nextFileId>>

\* update_file with new content, once the current row f is known: the checks
\* of the file type and the storage path the content is uploaded to
UploadForUpdate(q, f) ==
    LET newName == IF q.impl = "api" /\ q.fpatch.has_name THEN q.fpatch.name ELSE f.name
        newFolder == IF q.impl = "api" /\ q.fpatch.has_parent /\ q.fpatch.parent # Null
                     THEN q.fpatch.parent ELSE f.folder_id
    IN IF (q.impl = "api" /\ ~EndsWithTex(q.filename)) \/ ~IsTex(newName)
       THEN Raised(q, Escapes(q, InvalidFileType))
       ELSE [Goto(q, "bucket_list") EXCEPT !.path = StoragePath(newName, q.user, newFolder)]

\* the select by id and owner every operation on one file starts with
FileGetStep(r) ==
    LET q == req[r] IN
    /\ q.pc = "file_get"
    /\ \E fault \in BOOLEAN :
        LET q1 == Logged(q, "file_get", NoPath, ~fault)
            hit == MatchFile(q.id, q.user)
        IN req' = [req EXCEPT ![r] =
            IF fault THEN Raised(q1, Escapes(q, MetadataFault(q, "get_file", "Error fetching file")))
            ELSE IF hit = {} THEN Raised(q1, Escapes(q, FileNotFound(q.id)))
            ELSE LET f == CHOOSE x \in hit : TRUE
                     q2 == [q1 EXCEPT !.cur = {f}]
                 IN CASE q.op = "get_file" -> Returned(q2, {f})
                      [] q.op = "update_file" ->
                            IF q.content # NoContent THEN UploadForUpdate(q2, f) ELSE Goto(q2, "file_update")
                      [] q.op = "delete_file" -> [Goto(q2, "blob_remove") EXCEPT !.path = f.storage_path]
                      [] q.op = "download_file" -> [Goto(q2, "blob_download") EXCEPT !.path = f.storage_path]
                      [] q.op = "get_file_url" -> [Goto(q2, "blob_sign") EXCEPT !.path = f.storage_path]]
    /\ UNCHANGED <<folders, files, blobs, nextFolderId, nextFileId, served>>

\* the update of table files.  For an update with no field set the store
\* may answer with the matched rows or with none.
FileUpdateStep(r) ==
    LET q == req[r] IN
    /\ q.pc = "file_update"
    /\ \E fault \in BOOLEAN, echo \in BOOLEAN :
        LET q1 == Logged(q, "file_update", NoPath, ~fault)
            setPath == q.impl = "svc" /\ q.uploaded
            hit == MatchFile(q.id, q.user)
            new == {ApplyFilePatch(f, q.fpatch, setPath, q.path) : f \in hit}
        IN /\ (~echo => ~fault /\ EmptyUpdate(q.fpatch, setPath))
           /\ IF fault
              THEN /\ req' = [req EXCEPT ![r] =
                               Raised(q1, Escapes(q, MetadataFault(q, "update_file", "Error updating file")))]
                   /\ UNCHANGED files
              ELSE /\ files' = (files \ hit) \cup new
                   /\ req' = [req EXCEPT ![r] =
                               IF new = {} \/ ~echo
                               THEN Raised(q1, Escapes(q, FileNotFound(q.id)))
                               ELSE Returned(q1, new)]
    /\ UNCHANGED <<folders, blobs, nextFolderId, nextFileId, served>>

\* a delete_file that goes on to the row when the blob delete failed
BlobRemoveStep_GoesOn(r) ==
    LET q == req[r] IN
    /\ q.pc = "blob_remove"
    /\ \E fault \in BOOLEAN :
        LET q1 == Logged(q, "blob_remove", q.path, ~fault) IN
        /\ blobs' = IF fault THEN blobs ELSE RemoveBlob(q.path)
        /\ req' = [req EXCEPT ![r] = Goto(q1, "file_delete")]
    /\ UNCHANGED <<folders, files, nextFolderId, nextFileId, served>>

\* delete_file, the blob first
BlobRemoveStep(r) ==
    LET q == req[r] IN
    /\ q.pc = "blob_remove"
    /\ \E fault \in BOOLEAN :
        LET q1 == Logged(q, "blob_remove", q.path, ~fault) IN
        IF fault
        THEN /\ req' = [req EXCEPT ![r] =
                         Raised(q1, Escapes(q, StorageError("Error deleting file", "error", Str(StoreFault))))]
             /\ UNCHANGED blobs
        ELSE /\ blobs' = RemoveBlob(q.path)
             /\ req' = [req EXCEPT ![r] = Goto(q1, "file_delete")]
    /\ UNCHANGED <<folders, files, nextFolderId, nextFileId, served>>

\* delete_file, the row second
FileDeleteStep(r) ==
    LET q == req[r] IN
    /\ q.pc = "file_delete"
    /\ \E fault \in BOOLEAN :
        LET q1 == Logged(q, "file_delete", NoPath, ~fault)
            hit == MatchFile(q.id, q.user)
        IN IF fault
           THEN /\ req' = [req EXCEPT ![r] =
                            Raised(q1, Escapes(q, MetadataFault(q, "delete_file", "Error deleting file")))]
                /\ UNCHANGED files
           ELSE /\ files' = files \ hit
                /\ req' = [req EXCEPT ![r] =
                            IF hit = {} THEN Raised(q1, Escapes(q, FileNotFound(q.id)))
                            ELSE Returned(q1, IF q.impl = "svc" THEN hit ELSE {})]
    /\ UNCHANGED <<folders, blobs, nextFolderId, nextFileId, served>>

\* download_file: the bucket raises for a path that holds no object
BlobDownloadStep(r) ==
    LET q == req[r] IN
    /\ q.pc = "blob_download"
    /\ \E fault \in BOOLEAN :
        LET ok == ~fault /\ BlobExists(q.path)
            q1 == Logged(q, "blob_download", q.path, ok)
        IN req' = [req EXCEPT ![r] =
            IF ok
            THEN Returned(q1, {[content |-> b.content] : b \in {x \in blobs : x.path = q.path}})
            ELSE Raised(q1, Escapes(q, StorageError("Error downloading file", "error", Str(StoreFault))))]
    /\ UNCHANGED <<folders, files, blobs, nextFolderId, nextFileId, served>>

StartGetFiles(r, impl, u, folder) ==
    /\ Accepts(r)
    /\ req' = [req EXCEPT ![r] = [NewReq("get_files", impl, u, "file_select") EXCEPT !.parent = folder]]
    /\ UNCHANGED <<folders, files, blobs, nextFolderId, nextFileId>>

\* what a failed select on table files comes out as
FileSelectFault(impl) ==
    IF impl = "svc"
    THEN db_error_handler("get_files", StoreFault)
    ELSE DatabaseError("Error fetching files", "error", "Error fetching files")

\* get_files: one store call
FileSelectStep(r) ==
    LET q == req[r] IN
    /\ q.pc = "file_select"
    /\ \E fault \in BOOLEAN :
        LET q1 == Logged(q, "file_select", NoPath, ~fault) IN
        req' = [req EXCEPT ![r] =
            IF fault
            THEN Raised(q1, FileSelectFault(q.impl))
            ELSE Returned(q1, SelectFiles(q.user, q.parent))]
    /\ UNCHANGED <<folders, files, blobs, nextFolderId, nextFileId, served>>

(***************************************************************************)
(* get_all_folders_recursive and get_filesystem_tree.                      *)
(***************************************************************************)
\* the orders in which a select without ORDER BY may return the rows S
RECURSIVE Orders(_)
Orders(S) ==
    IF S = {} THEN {<<>>}
    ELSE UNION {{<<x>> \o o : o \in Orders(S \ {x})} : x \in S}

Ids(rows) == [i \in 1..Len(rows) |-> rows[i].id]

StartGetAllFoldersRecursive(r, impl, u) ==
    /\ Accepts(r)
    /\ req' = [req EXCEPT ![r] =
                 [NewReq("get_all_folders_recursive", impl, u, "bfs") EXCEPT !.queue = <<Null>>]]
    /\ UNCHANGED <<folders, files, blobs, nextFolderId, nextFileId>>

StartGetFilesystemTree(r, impl, u) ==
    /\ Accepts(r)
    /\ req' = [req EXCEPT ![r] =
                 [NewReq("get_filesystem_tree", impl, u, "bfs") EXCEPT !.queue = <<Null>>]]
    /\ UNCHANGED <<folders, files, blobs, nextFolderId, nextFileId>>

\* a traversal that reads the head of the deque and leaves it there
\* (queue[0] for popleft)
BfsStep_Peek(r) ==
    LET q == req[r] IN
    /\ q.pc = "bfs"
    /\ q.queue # <<>>
    /\ \E fault \in BOOLEAN :
        LET parent_id == Head(q.queue)
            q1 == [Logged(q, "folder_select", NoPath, ~fault) EXCEPT !.popped = Append(@, parent_id)]
        IN IF fault
           THEN req' = [req EXCEPT ![r] = Raised(q1, MetadataFault(q, "get_folders", "Error fetching folders"))]
           ELSE \E children \in Orders(SelectFolders(q.user, parent_id)) :
                  req' = [req EXCEPT ![r] = [q1 EXCEPT !.list = @ \o children,
                                                       !.queue = @ \o Ids(children)]]
    /\ UNCHANGED <<folders, files, blobs, nextFolderId, nextFileId, served>>

\* a traversal that takes the parent id from the right end of the deque
\* (pop for popleft): depth first
BfsStep_DepthFirst(r) ==
    LET q == req[r] IN
    /\ q.pc = "bfs"
    /\ q.queue # <<>>
    /\ \E fault \in BOOLEAN :
        LET parent_id == q.queue[Len(q.queue)]
            q1 == [Logged(q, "folder_select", NoPath, ~fault) EXCEPT !.popped = Append(@, parent_id)]
        IN IF fault
           THEN req' = [req EXCEPT ![r] = Raised(q1, MetadataFault(q, "get_folders", "Error fetching folders"))]
           ELSE \E children \in Orders(SelectFolders(q.user, parent_id)) :
                  LET q2 == [q1 EXCEPT !.list = @ \o children,
                                       !.queue = SubSeq(@, 1, Len(@) - 1) \o Ids(children)]
                  IN req' = [req EXCEPT ![r] =
                        IF q2.queue # <<>> THEN q2
                        ELSE IF q.op = "get_all_folders_recursive"
                             THEN [q2 EXCEPT !.pc = "done", !.res = NoError]
                             ELSE Goto(q2, "tree_files")]
    /\ UNCHANGED <<folders, files, blobs, nextFolderId, nextFileId, served>>

\* one turn of the while loop: popleft, get_folders, extend all_folders and
\* the queue; the loop ends when the queue is empty
BfsStep(r) ==
    LET q == req[r] IN
    /\ q.pc = "bfs"
    /\ q.queue # <<>>
    /\ \E fault \in BOOLEAN :
        LET parent_id == Head(q.queue)
            q1 == [Logged(q, "folder_select", NoPath, ~fault) EXCEPT !.popped = Append(@, parent_id)]
        IN IF fault
           THEN req' = [req EXCEPT ![r] = Raised(q1, MetadataFault(q, "get_folders", "Error fetching folders"))]
           ELSE \E children \in Orders(SelectFolders(q.user, parent_id)) :
                  LET q2 == [q1 EXCEPT !.list = @ \o children,
                                       !.queue = Tail(@) \o Ids(children)]
                  IN req' = [req EXCEPT ![r] =
                        IF q2.queue # <<>> THEN q2
                        ELSE IF q.op = "get_all_folders_recursive"
                             THEN [q2 EXCEPT !.pc = "done", !.res = NoError]
                             ELSE Goto(q2, "tree_files")]
    /\ UNCHANGED <<folders, files, blobs, nextFolderId, nextFileId, served>>

\* files_by_folder[key]; the key of a file with no folder_id is "root".
\* The lists of files are kept as sets: their order is the order of the
\* one select that returned them.
FilesByFolder(all_files, key) == {f \in all_files : f.folder_id = key}

\* folder_dicts: one entry per id, the last folder of that id in all_folders
FolderDicts(all_folders, all_files) ==
    {[id |-> all_folders[i].id, folder |-> all_folders[i],
      files |-> FilesByFolder(all_files, all_folders[i].id), subfolders |-> <<>>] :
        i \in {k \in 1..Len(all_folders) :
                  \A m \in (k + 1)..Len(all_folders) : all_folders[m].id # all_folders[k].id}}

\* a second loop that lost its else: every folder goes to the top as well
RECURSIVE Attach_NoElse(_, _, _)
Attach_NoElse(all_folders, i, t) ==
    IF i > Len(all_folders) THEN t
    ELSE LET folder == all_folders[i]
             t1 == IF folder.parent_id # Null
                   THEN [t EXCEPT !.nodes = {IF n.id = folder.parent_id
                                             THEN [n EXCEPT !.subfolders = Append(@, folder.id)]
                                             ELSE n : n \in t.nodes}]
                   ELSE t
         IN Attach_NoElse(all_folders, i + 1, [t1 EXCEPT !.folders = Append(@, folder.id)])

\* the second loop over all_folders, from its i-th folder on: a folder with
\* a parent_id goes under its parent's entry if there is one, a folder
\* without goes to the top
RECURSIVE Attach(_, _, _)
Attach(all_folders, i, t) ==
    IF i > Len(all_folders) THEN t
    ELSE LET folder == all_folders[i] IN
         IF folder.parent_id # Null
         THEN Attach(all_folders, i + 1,
                     [t EXCEPT !.nodes = {IF n.id = folder.parent_id
                                          THEN [n EXCEPT !.subfolders = Append(@, folder.id)]
                                          ELSE n : n \in t.nodes}])
         ELSE Attach(all_folders, i + 1, [t EXCEPT !.folders = Append(@, folder.id)])

BuildTree(all_folders, all_files) ==
    Attach(all_folders, 1,
           [folders |-> <<>>, files |-> FilesByFolder(all_files, Null),
            nodes |-> FolderDicts(all_folders, all_files)])

\* get_filesystem_tree after the traversal: get_files(user_id) and the tree
TreeFilesStep(r) ==
    LET q == req[r] IN
    /\ q.pc = "tree_files"
    /\ \E fault \in BOOLEAN :
        LET q1 == Logged(q, "file_select", NoPath, ~fault) IN
        req' = [req EXCEPT ![r] =
            IF fault
            THEN Raised(q1, MetadataFault(q, "get_files", "Error fetching files"))
            ELSE [q1 EXCEPT !.pc = "done", !.res = NoError,
                            !.tree = BuildTree(q.list, SelectFiles(q.user, Null))]]
    /\ UNCHANGED <<folders, files, blobs, nextFolderId, nextFileId, served>>

\* expires_in of get_file_url when the caller gives none
DefaultExpiresIn == 3600

\* get_file_url: a signed URL of the stored path
BlobSignStep(r) ==
    LET q == req[r] IN
    /\ q.pc = "blob_sign"
    /\ \E fault \in BOOLEAN :
        LET q1 == Logged(q, "blob_sign", q.path, ~fault) IN
        req' = [req EXCEPT ![r] =
            IF fault
            THEN Raised(q1, Escapes(q, StorageError("Error generating file URL", "error", Str(StoreFault))))
            ELSE Returned(q1, {[url |-> q.path, expires_in |-> DefaultExpiresIn]})]
    /\ UNCHANGED <<folders, files, blobs, nextFolderId, nextFileId, served>>

\* the response is sent and the request's frame is dropped
Respond(r) ==
    /\ req[r].pc = "done"
    /\ req' = [req EXCEPT ![r] = IdleReq]
    /\ UNCHANGED <<folders, files, blobs, nextFolderId, nextFileId, served>>

(***************************************************************************)
(* The requests the specifications draw from.                              *)
(***************************************************************************)
TexA == FileName("", "a", ".tex")
TexB == FileName("", "b", ".tex")
FileNames == {TexA, TexB}

\* the folder_id values file requests use (table files holds no foreign key
\* check in this model: no file operation reads table folders)
FileFolderIds == {Null, 1}

\* bodies of an update_folder: a new name, a new parent, or a new name at the root
FolderPatches ==
    {Patch(TRUE, n, FALSE, Null) : n \in FolderNames}
    \cup {Patch(FALSE, "", TRUE, p) : p \in ParentIds}
    \cup {Patch(TRUE, n, TRUE, Null) : n \in FolderNames}

\* a body of PUT /files/{id} cannot set folder_id to null (an absent form
\* field is None); a FileUpdate given to the service can
FilePatches(impl) ==
    {Patch(TRUE, n, FALSE, Null) : n \in FileNames}
    \cup {Patch(FALSE, NoName, TRUE, p) : p \in IF impl = "svc" THEN FileFolderIds ELSE FileFolderIds \ {Null}}

NoFilePatch == Patch(FALSE, NoName, FALSE, Null)

\* ids are drawn by the store: a request can name as a parent only an id
\* the store has handed out (the folder may be gone by now)
KnownParentIds == {p \in ParentIds : p < nextFolderId}

StartFolderOp(r, us) ==
    \E impl \in Impls, u \in us :
        \/ \E n \in FolderNames, p \in KnownParentIds : StartCreateFolder(r, impl, u, n, p)
        \/ \E id \in FolderIds, patch \in {x \in FolderPatches : x.parent \in KnownParentIds} :
                StartUpdateFolder(r, impl, u, id, patch)
        \/ \E id \in FolderIds : StartDeleteFolder(r, impl, u, id)
        \/ \E p \in ParentIds : StartGetFolders(r, impl, u, p)

FolderStep(r) ==
    \/ FolderExistsStep(r)
    \/ FolderInsertStep(r)
    \/ FolderUpdateStep(r)
    \/ FolderDeleteStep(r)
    \/ FolderSelectStep(r)

StartFileOp(r, us) ==
    \E impl \in Impls, u \in us :
        \/ \E n \in FileNames, p \in FileFolderIds, c \in Contents : StartCreateFile(r, impl, u, n, n, p, c)
        \/ \E id \in FileIds, patch \in FilePatches(impl) : StartUpdateFile(r, impl, u, id, patch, NoName, NoContent)
        \/ \E id \in FileIds, patch \in FilePatches(impl) \cup {NoFilePatch}, c \in Contents :
              StartUpdateFile(r, impl, u, id, patch, TexA, c)
        \/ \E id \in FileIds : StartDeleteFile(r, impl, u, id)
        \/ \E id \in FileIds : StartDownloadFile(r, impl, u, id)
        \/ \E id \in FileIds : StartGetFileUrl(r, impl, u, id)
        \/ \E id \in FileIds : impl = "svc" /\ StartGetFile(r, u, id)
        \/ \E p \in FileFolderIds : StartGetFiles(r, impl, u, p)

FileStep(r) ==
    \/ FileExistsStep(r)
    \/ BucketListStep(r)
    \/ BlobUploadStep(r)
    \/ FileInsertStep(r)
    \/ CleanupStep(r)
    \/ FileGetStep(r)
    \/ FileUpdateStep(r)
    \/ BlobRemoveStep(r)
    \/ FileDeleteStep(r)
    \/ BlobDownloadStep(r)
    \/ BlobSignStep(r)
    \/ FileSelectStep(r)

(***************************************************************************)
(* Specifications.                                                         *)
(***************************************************************************)
Init ==
    /\ folders = {}
    /\ files = {}
    /\ blobs = {}
    /\ nextFolderId = 1
    /\ nextFileId = 1
    /\ req = [r \in Slots |-> IdleReq]
    /\ served = 0

\* Folder requests of two owners, one request at a time.
Next ==
    \/ StartFolderOp(1, Users)
    \/ FolderStep(1)
    \/ Respond(1)

Spec == Init /\ [][Next]_vars

\* File requests of one owner, one request at a time.
NextFiles ==
    \/ StartFileOp(1, {"uA"})
    \/ FileStep(1)
    \/ Respond(1)

SpecFiles == Init /\ [][NextFiles]_vars

\* Requests of two owners on each other's ids, one request at a time.
StartIsoOp(r) ==
    \E impl \in Impls, u \in Users :
        \/ StartCreateFolder(r, impl, u, "x", Null)
        \/ \E id \in FolderIds : StartUpdateFolder(r, impl, u, id, Patch(TRUE, "y", FALSE, Null))
        \/ \E id \in FolderIds : StartDeleteFolder(r, impl, u, id)
        \/ StartGetFolders(r, impl, u, Null)
        \/ StartCreateFile(r, impl, u, TexA, TexA, Null, "c1")
        \/ \E id \in FileIds : StartUpdateFile(r, impl, u, id, Patch(TRUE, TexB, FALSE, Null), NoName, NoContent)
        \/ \E id \in FileIds : StartDeleteFile(r, impl, u, id)
        \/ \E id \in FileIds : StartDownloadFile(r, impl, u, id)
        \/ \E id \in FileIds : StartGetFileUrl(r, impl, u, id)
        \/ \E id \in FileIds : impl = "svc" /\ StartGetFile(r, u, id)
        \/ StartGetFiles(r, impl, u, Null)
        \/ \E id \in FileIds : StartUpdateFile(r, impl, u, id, NoFilePatch, TexA, "c2")
        \/ StartGetFilesystemTree(r, impl, u)

NextIso ==
    \/ StartIsoOp(1)
    \/ FolderStep(1)
    \/ FileStep(1)
    \/ BfsStep(1)
    \/ TreeFilesStep(1)
    \/ Respond(1)

SpecIso == Init /\ [][NextIso]_vars

\* Uploads of one owner under names of every kind of extension: a create, or
\* new content for a file.
UpperTex == FileName("", "a", ".TEX")
Txt == FileName("", "a", ".txt")
DotTex == FileName("", "", ".tex")
UploadNames == {TexA, UpperTex, Txt, DotTex}

StartUploadOp(r) ==
    \/ \E n \in UploadNames : StartCreateFile(r, "svc", "uA", n, n, Null, "c1")
    \/ \E filename \in UploadNames, n \in UploadNames : StartCreateFile(r, "api", "uA", filename, n, Null, "c1")
    \/ \E id \in FileIds : StartUpdateFile(r, "svc", "uA", id, NoFilePatch, NoName, "c2")
    \/ \E id \in FileIds, filename \in UploadNames :
            StartUpdateFile(r, "api", "uA", id, NoFilePatch, filename, "c2")
    \/ \E id \in FileIds, n \in UploadNames :
            StartUpdateFile(r, "api", "uA", id, Patch(TRUE, n, FALSE, Null), TexA, "c2")

UploadStep(r) ==
    \/ FileExistsStep(r)
    \/ BucketListStep(r)
    \/ BlobUploadStep(r)
    \/ FileInsertStep(r)
    \/ CleanupStep(r)
    \/ FileGetStep(r)
    \/ FileUpdateStep(r)

NextUpload ==
    \/ StartUploadOp(1)
    \/ UploadStep(1)
    \/ Respond(1)

SpecUpload == Init /\ [][NextUpload]_vars

\* create_file, update_file and delete_file of one owner, one at a time,
\* in runs where every request succeeds: a step that would end its request
\* with a failure is not taken.
Succeeds(r) == req'[r].pc = "done" => req'[r].res = NoError

StartCleanOp(r) ==
    \E impl \in Impls :
        \/ \E n \in FileNames, c \in Contents : StartCreateFile(r, impl, "uA", n, n, Null, c)
        \/ \E id \in FileIds, patch \in FilePatches(impl) :
                StartUpdateFile(r, impl, "uA", id, patch, NoName, NoContent)
        \/ \E id \in FileIds, patch \in FilePatches(impl) \cup {NoFilePatch} :
                StartUpdateFile(r, impl, "uA", id, patch, TexA, "c2")
        \/ \E id \in FileIds : StartDeleteFile(r, impl, "uA", id)

NextClean ==
    \/ StartCleanOp(1)
    \/ FileExistsStep(1) /\ Succeeds(1)
    \/ BucketListStep(1) /\ Succeeds(1)
    \/ BlobUploadStep(1) /\ Succeeds(1)
    \/ FileInsertStep(1) /\ Succeeds(1)
    \/ FileGetStep(1) /\ Succeeds(1)
    \/ FileUpdateStep(1) /\ Succeeds(1)
    \/ BlobRemoveStep(1) /\ Succeeds(1)
    \/ FileDeleteStep(1) /\ Succeeds(1)
    \/ Respond(1)

SpecClean == Init /\ [][NextClean]_vars

\* Creates of one owner under names with and without a directory part, in
\* the root and in a folder; the service's caller fills in a storage_path of
\* its own choosing.
DirTexA == FileName("d", "a", ".tex")
PathNames == {TexA, TexB, DirTexA}
GivenPaths == {StoragePath(TexB, "uB", Null), StoragePath(TexA, "uA", Null)}

StartPathOp(r) ==
    \/ \E n \in PathNames, p \in FileFolderIds, c \in Contents, given \in GivenPaths :
            StartCreateFileGiven(r, "uA", n, p, c, given)
    \/ \E n \in PathNames, p \in FileFolderIds, c \in Contents :
            StartCreateFile(r, "api", "uA", n, n, p, c)

PathStep(r) ==
    \/ FileExistsStep(r)
    \/ BucketListStep(r)
    \/ BlobUploadStep(r)
    \/ FileInsertStep(r)
    \/ CleanupStep(r)

NextPath ==
    \/ StartPathOp(1)
    \/ PathStep(1)
    \/ Respond(1)

SpecPath == Init /\ [][NextPath]_vars

\* Creates of one owner, two requests at a time: the store calls of the two
\* interleave in any order.
StartRaceOp(r) ==
    \E impl \in Impls :
        \/ \E n \in FolderNames : StartCreateFolder(r, impl, "uA", n, Null)
        \/ \E c \in Contents : StartCreateFile(r, impl, "uA", TexA, TexA, Null, c)

RaceStep(r) ==
    \/ FolderExistsStep(r)
    \/ FolderInsertStep(r)
    \/ FileExistsStep(r)
    \/ BucketListStep(r)
    \/ BlobUploadStep(r)
    \/ FileInsertStep(r)
    \/ CleanupStep(r)

NextRace ==
    \E r \in Slots :
        \/ StartRaceOp(r)
        \/ RaceStep(r)
        \/ Respond(r)

SpecRace == Init /\ [][NextRace]_vars

\* A table of n folders of owner uA as create_folder and update_folder can
\* leave it: ids 1..n, every parent_id null or an id of the table (its own
\* included: update_folder checks no parent_id)
FolderTable(n, par) == {FolderRow(i, "uA", "x", par[i]) : i \in 1..n}

Stems == <<"a", "b", "c", "d", "e", "f">>
TableFileName(i) == FileName("", Stems[((i - 1) % Len(Stems)) + 1], ".tex")

\* A table of m files of owner uA in the folders loc, with their blobs
FileTable(m, loc) ==
    {FileRow(i, "uA", TableFileName(i), loc[i], StoragePath(TableFileName(i), "uA", loc[i])) : i \in 1..m}

InitTables(maxFolders, maxFiles) ==
    /\ \E n \in 0..maxFolders, m \in 0..maxFiles :
         \E par \in [1..n -> {Null} \cup 1..n], loc \in [1..m -> {Null} \cup 1..n] :
            /\ \A i, j \in 1..m : i <= j => loc[i] <= loc[j]
            /\ folders = FolderTable(n, par)
            /\ files = FileTable(m, loc)
            /\ blobs = {Blob(f.storage_path, "c1") : f \in FileTable(m, loc)}
            /\ nextFolderId = n + 1
            /\ nextFileId = m + 1
    /\ req = [r \in Slots |-> IdleReq]
    /\ served = 0

\* The service's get_filesystem_tree over a folder table of up to
\* MaxBfsFolders rows and no files, with no request beside it.
InitBfs == InitTables(MaxBfsFolders, 0)

NextBfs ==
    \/ StartGetFilesystemTree(1, "svc", "uA")
    \/ BfsStep(1)
    \/ TreeFilesStep(1)

SpecBfs == InitBfs /\ [][NextBfs]_vars

\* One get_filesystem_tree, or one get_all_folders_recursive on its own,
\* over a folder table and a file table.
InitTree == InitTables(MaxTreeFolders, MaxTreeFiles)

NextTree ==
    \/ \E impl \in Impls : StartGetFilesystemTree(1, impl, "uA")
    \/ \E impl \in Impls : StartGetAllFoldersRecursive(1, impl, "uA")
    \/ BfsStep(1)
    \/ TreeFilesStep(1)

SpecTree == InitTree /\ [][NextTree]_vars

\* delete_folder, by the owner of a table of folders and files or by another
\* user, on the ids of the table and on one that is not in it.
InitCascade == InitTables(MaxFolders, MaxFiles)

NextCascade ==
    \/ \E impl \in Impls, u \in Users, id \in 1..(MaxFolders + 1) : StartDeleteFolder(1, impl, u, id)
    \/ FolderDeleteStep(1)
    \/ Respond(1)

SpecCascade == InitCascade /\ [][NextCascade]_vars

\* One owner builds up folders and files from empty stores, moves and
\* deletes folders, and asks for the tree; one request at a time.
StartGrowOp(r) ==
    \/ \E p \in KnownParentIds : StartCreateFolder(r, "svc", "uA", "x", p)
    \/ \E id \in FolderIds, p \in KnownParentIds :
            StartUpdateFolder(r, "svc", "uA", id, Patch(FALSE, "", TRUE, p))
    \/ \E id \in FolderIds : StartDeleteFolder(r, "svc", "uA", id)
    \/ \E p \in FileFolderIds : StartCreateFile(r, "svc", "uA", TexA, TexA, p, "c1")
    \/ \E impl \in Impls : StartGetFilesystemTree(r, impl, "uA")

GrowStep(r) ==
    \/ FolderExistsStep(r)
    \/ FolderInsertStep(r)
    \/ FolderUpdateStep(r)
    \/ FolderDeleteStep(r)
    \/ FileExistsStep(r)
    \/ BucketListStep(r)
    \/ BlobUploadStep(r)
    \/ FileInsertStep(r)
    \/ BfsStep(r)
    \/ TreeFilesStep(r)

NextGrow ==
    \/ StartGrowOp(1)
    \/ GrowStep(1)
    \/ Respond(1)

SpecGrow == Init /\ [][NextGrow]_vars

\* get_filesystem_tree in slot 1 and, while it runs, update_folder requests
\* in slot 2 that move folders of the same owner: the stores are shared and nothing is locked,
\* so an update may land between two selects of the traversal.  Folders
\* moved into a cycle under a queued id keep the traversal going for ever:
\* the run is cut after MaxMovePops selects.
InitMove == InitTables(MaxFolders, 0)

NextMove ==
    \/ \E impl \in Impls : StartGetFilesystemTree(1, impl, "uA")
    \/ Len(req[1].popped) < MaxMovePops /\ BfsStep(1)
    \/ TreeFilesStep(1)
    \/ /\ req[1].pc = "bfs"
       /\ \E id \in FolderIds, p \in ParentIds :
            StartUpdateFolder(2, "svc", "uA", id, Patch(FALSE, "", TRUE, p))
    \/ FolderUpdateStep(2)
    \/ \E r \in Slots : Respond(r)

SpecMove == InitMove /\ [][NextMove]_vars

(***************************************************************************)
(* Properties.                                                             *)
(***************************************************************************)
Done(r) == req[r].pc = "done"

\* the store calls of request q, by name and by what they answered
Calls(q, call) == {i \in 1..Len(q.log) : q.log[i].call = call}
CallOk(q, call) == \E i \in Calls(q, call) : q.log[i].ok
CallFailed(q, call) == \E i \in Calls(q, call) : ~q.log[i].ok
NoFault(q) == \A i \in 1..Len(q.log) : q.log[i].ok

\* C1: a create_file whose blob upload succeeded and whose metadata insert
\* failed returns with no blob at the computed storage path and with the
\* metadata (database) failure, in the service and under POST /files.
C1_TwoPhaseCompensation ==
    \A r \in Slots :
        LET q == req[r] IN
        (Done(r) /\ q.op = "create_file" /\ CallOk(q, "blob_upload") /\ CallFailed(q, "file_insert"))
            => (~BlobExists(q.path) /\ q.res.kind = "DatabaseError")

\* C2: delete_file removes the blob first and the row second; when the blob
\* delete fails the call fails and the row of that id is still there, as it
\* was when the call started.
C2_DeleteOrdering ==
    \A r \in Slots :
        LET q == req[r] IN
        (Done(r) /\ q.op = "delete_file") =>
            /\ \A i \in Calls(q, "file_delete") :
                  \E j \in Calls(q, "blob_remove") : j < i /\ q.log[j].ok
            /\ CallFailed(q, "blob_remove") =>
                  /\ q.res.kind = "StorageError"
                  /\ MatchFile(q.id, q.user) # {}
                  /\ MatchFile(q.id, q.user) = {f \in q.pre.files : f.id = q.id /\ f.user_id = q.user}
                  /\ files = q.pre.files

C2_Witness ==
    \E r \in Slots :
        /\ Done(r) /\ req[r].op = "delete_file"
        /\ CallFailed(req[r], "blob_remove")
        /\ MatchFile(req[r].id, req[r].user) # {}

\* C3: whenever no request is running, every file row's storage_path names
\* a blob that exists, whatever store calls failed before.
C3_Lockstep ==
    (\A r \in Slots : req[r].pc \in {"idle", "done"})
        => \A f \in files : BlobExists(f.storage_path)

\* C6: no two file rows of one owner share (folder_id, name).
C6_FileNameUnique ==
    \A f, g \in files :
        (f.user_id = g.user_id /\ f.folder_id = g.folder_id /\ f.name = g.name) => f = g

\* C4: a create_folder of a name its owner already has under that parent
\* fails with the DUPLICATE_FOLDER marker and inserts nothing; a create_folder
\* of a name its owner does not have under that parent succeeds, whatever
\* the owner has under other parents.
C4_Taken(q) ==
    \E f \in q.pre.folders : f.user_id = q.user /\ f.parent_id = q.parent /\ f.name = q.fname

C4_CreateFolderUnique ==
    \A r \in Slots :
        LET q == req[r] IN
        (Done(r) /\ q.op = "create_folder") =>
            /\ C4_Taken(q) =>
                  /\ q.res.kind = "DatabaseError"
                  /\ folders = q.pre.folders
                  /\ NoFault(q) => q.res.dtext = "DUPLICATE_FOLDER"
            /\ (~C4_Taken(q) /\ NoFault(q)) =>
                  /\ q.res.kind = "ok"
                  /\ \E f \in folders \ q.pre.folders :
                        /\ f.user_id = q.user /\ f.parent_id = q.parent /\ f.name = q.fname
                        /\ folders = q.pre.folders \cup {f}
                        /\ q.data = {f}

\* the second create of (n, p, u) is refused while the same owner holds the
\* same name under another parent p2, created by a create that succeeded
C4_Witness ==
    \E r \in Slots :
        LET q == req[r] IN
        /\ Done(r) /\ q.op = "create_folder"
        /\ q.res.dtext = "DUPLICATE_FOLDER"
        /\ \E f, g \in folders :
              /\ f.user_id = q.user /\ f.name = q.fname /\ f.parent_id = q.parent
              /\ g.user_id = q.user /\ g.name = q.fname /\ g.parent_id # q.parent

\* C5: no two folder rows of one owner share (parent_id, name).
C5_SiblingFolderUnique ==
    \A f, g \in folders :
        (f.user_id = g.user_id /\ f.parent_id = g.parent_id /\ f.name = g.name) => f = g

\* C10: get_folders(owner, None) returns exactly the owner's folders whose
\* parent_id is null, get_folders(owner, p) exactly those whose parent_id
\* is p; never all of the owner's folders when some are nested.
C10_RootVsAll ==
    \A r \in Slots :
        LET q == req[r]
            own == {f \in folders : f.user_id = q.user}
        IN (Done(r) /\ q.op = "get_folders" /\ q.res.kind = "ok") =>
            /\ q.data = {f \in own : f.parent_id = q.parent}
            /\ (\E f \in own : f.parent_id # q.parent) => q.data # own

C10_Witness ==
    \E r \in Slots :
        LET q == req[r] IN
        /\ Done(r) /\ q.op = "get_folders" /\ q.res.kind = "ok" /\ q.parent = Null
        /\ q.data # {}
        /\ \E f \in folders : f.user_id = q.user /\ f.parent_id # Null

\* C7: nothing holds back the insert of a create that has passed its
\* existence check: when another request has inserted the same
\* (owner, parent, name) in between, the insert still goes through and
\* leaves two rows of that tuple.
C7_CheckThenInsertRace ==
    \A r \in Slots :
        LET q == req[r] IN
        /\ (q.pc = "folder_insert" /\ FolderExistsQuery(q.user, q.fname, q.parent)) =>
              ENABLED (/\ FolderInsertStep(r)
                       /\ Cardinality({f \in folders' : /\ f.user_id = q.user
                                                        /\ f.parent_id = q.parent
                                                        /\ f.name = q.fname}) >= 2)
        /\ (q.pc = "file_insert" /\ FileExistsQuery(q.user, q.name, q.parent)) =>
              ENABLED (/\ FileInsertStep(r)
                       /\ Cardinality({f \in files' : /\ f.user_id = q.user
                                                      /\ f.folder_id = q.parent
                                                      /\ f.name = q.name}) >= 2)

\* two concurrent create_folder of one (owner, parent, name) have both
\* returned their row
C7_Witness ==
    /\ \A r \in Slots : Done(r) /\ req[r].op = "create_folder" /\ req[r].res.kind = "ok"
    /\ req[1].user = req[2].user /\ req[1].parent = req[2].parent /\ req[1].fname = req[2].fname
    /\ req[1].data # req[2].data
    /\ req[1].data \cup req[2].data \subseteq folders
    /\ \A r \in Slots : ~C4_Taken(req[r])

\* C8: get_file, download_file and get_file_url of a file that belongs to
\* another owner answer NotFound and make no call on the blob store, so none
\* with the other owner's storage path.
C8_Reads == {"get_file", "download_file", "get_file_url"}

C8_Foreign(q) == \E f \in q.pre.files : f.id = q.id /\ f.user_id # q.user

C8_ReadIsolation ==
    \A r \in Slots :
        LET q == req[r] IN
        (Done(r) /\ q.op \in C8_Reads /\ C8_Foreign(q)) =>
            /\ q.res.kind # "ok"
            /\ q.data = {}
            /\ NoFault(q) => q.res = FileNotFound(q.id)
            /\ \A i \in 1..Len(q.log) : q.log[i].path = NoPath
            /\ Calls(q, "blob_download") \cup Calls(q, "blob_sign") = {}

C8_Witness ==
    \E r \in Slots :
        LET q == req[r] IN
        /\ Done(r) /\ q.op = "download_file" /\ C8_Foreign(q)
        /\ q.res = FileNotFound(q.id)
        /\ \E b \in blobs : b.path.user # q.user

\* C9: get, update and delete by id answer the same for an id that no row
\* has and for an id that a row of another owner has: the not-found error
\* of that id when the store answers, the store's failure when it does not,
\* after one store call and with every table and the bucket left as they were.
C9_FolderOps == {"update_folder", "delete_folder"}
C9_FileOps == {"get_file", "update_file", "delete_file", "download_file", "get_file_url"}

C9_NotOwned(q) ==
    IF q.op \in C9_FolderOps
    THEN ~\E f \in q.pre.folders : f.id = q.id /\ f.user_id = q.user
    ELSE ~\E f \in q.pre.files : f.id = q.id /\ f.user_id = q.user

C9_NonDisclosure ==
    \A r \in Slots :
        LET q == req[r] IN
        (Done(r) /\ q.op \in C9_FolderOps \cup C9_FileOps /\ C9_NotOwned(q)) =>
            /\ Len(q.log) = 1
            /\ q.data = {}
            /\ q.log[1].ok => q.res = (IF q.op \in C9_FolderOps THEN FolderNotFound(q.id) ELSE FileNotFound(q.id))
            /\ ~q.log[1].ok => (q.res.kind \in {"DatabaseError", "StorageError"} /\ q.res.did = Null)
            /\ folders = q.pre.folders /\ files = q.pre.files /\ blobs = q.pre.blobs

C9_Witness ==
    \E r \in Slots :
        LET q == req[r] IN
        /\ Done(r) /\ q.op = "update_folder"
        /\ \E f \in folders : f.id = q.id /\ f.user_id # q.user
        /\ q.res = FolderNotFound(q.id)

\* C11: get_files of an owner with no folder_id given returns exactly that
\* owner's files whose folder_id is null, and with a folder_id given exactly
\* the owner's files in that folder.
C11_RootFilesOnly ==
    \A r \in Slots :
        LET q == req[r] IN
        (Done(r) /\ q.op = "get_files" /\ q.res.kind = "ok") =>
            q.data = {f \in files : f.user_id = q.user /\ f.folder_id = q.parent}

\* the folder rows of owner u, and of those the ones a chain of parent_id
\* links joins to the null root: FolderDepth is 1 for a folder without
\* parent, 1 more than its parent's for a folder below one, 0 for a folder
\* whose chain never gets to null
Own(u) == {f \in folders : f.user_id = u}

RECURSIVE FolderDepth(_, _, _)
FolderDepth(own, f, fuel) ==
    IF f.parent_id = Null THEN 1
    ELSE IF fuel = 0 \/ ~\E p \in own : p.id = f.parent_id THEN 0
    ELSE LET d == FolderDepth(own, CHOOSE p \in own : p.id = f.parent_id, fuel - 1)
         IN IF d = 0 THEN 0 ELSE d + 1

Depth(own, f) == FolderDepth(own, f, Cardinality(own))
Rooted(own) == {f \in own : Depth(own, f) > 0}

RECURSIVE Ancestor(_, _, _)
Ancestor(own, id, k) ==
    IF k = 0 \/ id = Null \/ ~\E p \in own : p.id = id THEN id
    ELSE Ancestor(own, (CHOOSE p \in own : p.id = id).parent_id, k - 1)

OnCycle(own, f) == \E k \in 1..Cardinality(own) : Ancestor(own, f.id, k) = f.id
\* every parent_id names a folder of the owner and no chain of them loops
Forest(own) == \A f \in own : Depth(own, f) > 0

Range(seq) == {seq[i] : i \in 1..Len(seq)}
NoRepeats(seq) == \A i, j \in 1..Len(seq) : i # j => seq[i] # seq[j]
Traversals == {"get_all_folders_recursive", "get_filesystem_tree"}

\* C12: over folder rows that form a forest, get_filesystem_tree returns the
\* folders without parent at the top, under every folder its child folders
\* and the files whose folder_id it is, and at the top the files without
\* folder_id.
C12_TreeReconstruction ==
    \A r \in Slots :
        LET q == req[r]
            own == Own(q.user)
            mine == {f \in files : f.user_id = q.user}
            t == q.tree
        IN (Done(r) /\ q.op = "get_filesystem_tree" /\ q.res.kind = "ok" /\ Forest(own)) =>
            /\ NoRepeats(t.folders)
            /\ Range(t.folders) = {f.id : f \in {g \in own : g.parent_id = Null}}
            /\ t.files = {f \in mine : f.folder_id = Null}
            /\ {n.id : n \in t.nodes} = {f.id : f \in own}
            /\ \A n \in t.nodes :
                  /\ n.folder \in own
                  /\ n.folder.id = n.id
                  /\ NoRepeats(n.subfolders)
                  /\ Range(n.subfolders) = {f.id : f \in {g \in own : g.parent_id = n.id}}
                  /\ n.files = {f \in mine : f.folder_id = n.id}

\* folders null->A, A->B, null->C and files f1 in A, f2 in B, f3 at the root
C12_Witness ==
    \E r \in Slots :
        LET q == req[r] IN
        /\ Done(r) /\ q.op = "get_filesystem_tree" /\ q.res.kind = "ok"
        /\ \E a, b, c \in folders :
              /\ folders = {a, b, c} /\ a # c
              /\ a.parent_id = Null /\ c.parent_id = Null /\ b.parent_id = a.id
              /\ Range(q.tree.folders) = {a.id, c.id}
              /\ \E f1, f2, f3 \in files :
                    /\ f1.folder_id = a.id /\ f2.folder_id = b.id /\ f3.folder_id = Null
                    /\ q.tree.files = {f3}
                    /\ \E na, nb \in q.tree.nodes :
                          /\ na.id = a.id /\ na.subfolders = <<b.id>> /\ na.files = {f1}
                          /\ nb.id = b.id /\ nb.subfolders = <<>> /\ nb.files = {f2}

\* C13: a traversal that returns has taken every parent id from its queue
\* once at most, holds every folder that parent links join to the null root
\* exactly once, and holds them breadth first: no folder before a folder of
\* smaller depth, every parent before its children; the subfolder lists of
\* the tree are in the order of that list.
C13_Position(list, id) == CHOOSE i \in 1..Len(list) : list[i].id = id

C13_BreadthFirst ==
    \A r \in Slots :
        LET q == req[r]
            own == Own(q.user)
        IN (Done(r) /\ q.op \in Traversals /\ q.res.kind = "ok") =>
            /\ NoRepeats(q.popped)
            /\ NoRepeats(q.list)
            /\ Range(q.list) = Rooted(own)
            /\ \A i, j \in 1..Len(q.list) :
                  i < j => Depth(own, q.list[i]) <= Depth(own, q.list[j])
            /\ \A j \in 1..Len(q.list) :
                  q.list[j].parent_id # Null => \E i \in 1..(j - 1) : q.list[i].id = q.list[j].parent_id
            /\ \A n \in q.tree.nodes : \A i, j \in 1..Len(n.subfolders) :
                  i < j => C13_Position(q.list, n.subfolders[i]) < C13_Position(q.list, n.subfolders[j])

\* five folders over three depths, and a folder of depth 3 that comes after
\* a folder of depth 2 that is not its parent
C13_Witness ==
    \E r \in Slots :
        LET q == req[r]
            own == Own(q.user)
        IN /\ Done(r) /\ q.op = "get_filesystem_tree" /\ q.res.kind = "ok"
           /\ Len(q.list) = 5
           /\ \E n \in q.tree.nodes : Len(n.subfolders) = 2
           /\ \E i, j \in 1..5 :
                 /\ i < j
                 /\ Depth(own, q.list[i]) = 2 /\ Depth(own, q.list[j]) = 3
                 /\ q.list[j].parent_id # q.list[i].id
                 /\ \E k \in 1..5 : Depth(own, q.list[k]) = 2 /\ q.list[k].id = q.list[j].parent_id /\ k < i

\* C14 as stated: over folder rows with a cycle of parent_id links the
\* traversal never empties its queue.
C14_CycleNeverEnds ==
    \A r \in Slots :
        LET q == req[r]
            own == Own(q.user)
        IN (q.op \in Traversals /\ q.pc # "idle" /\ \E f \in own : OnCycle(own, f))
              => q.queue # <<>>

\* C14 as amended: with or without a cycle the traversal ends.  It takes at
\* most one parent id per folder of the owner, and the null marker, from
\* its queue, each turn of the loop finds the queue non-empty,
\* and when it returns the queue is empty and no folder on a cycle, or below
\* one, is in the list.
C14_CycleSkipped ==
    \A r \in Slots :
        LET q == req[r]
            own == Own(q.user)
        IN (q.op \in Traversals /\ q.pc # "idle") =>
            /\ Len(q.popped) <= 1 + Cardinality(own)
            /\ q.pc = "bfs" => q.queue # <<>>
            /\ (Done(r) /\ q.res.kind = "ok") =>
                  /\ q.queue = <<>>
                  /\ \A f \in own : (OnCycle(own, f) \/ Depth(own, f) = 0) => f \notin Range(q.list)

\* a traversal has returned over a table that holds a cycle of two folders
\* and a folder at the root
C14_Witness ==
    \E r \in Slots :
        LET q == req[r]
            own == Own(q.user)
        IN /\ Done(r) /\ q.op = "get_filesystem_tree" /\ q.res.kind = "ok"
           /\ q.list # <<>>
           /\ \E f, g \in own : f # g /\ f.parent_id = g.id /\ g.parent_id = f.id
\* the metadata failure a create_file answers with when its insert failed:
\* the repository's converted error in the service, the endpoint's database
\* error around the adapter's one under POST /files
InsertFailure(q) ==
    IF q.impl = "svc"
    THEN q.res = DatabaseError("Database operation failed in create_file", "error", Str(StoreFault))
    ELSE q.res = DatabaseError("Error creating file in database", "error", "Error creating file")

\* C15: a create_file whose metadata insert failed answers with the metadata
\* (database) failure of the insert, also when the compensating blob delete
\* failed as well: never with the failure of the delete and never with
\* success.
C15_PrimaryErrorKept ==
    \A r \in Slots :
        LET q == req[r] IN
        (Done(r) /\ q.op = "create_file" /\ CallFailed(q, "file_insert"))
            => /\ q.res.kind = "DatabaseError"
               /\ InsertFailure(q)
               /\ CallFailed(q, "blob_remove") => q.log[Len(q.log)].call = "blob_remove"

C15_Witness ==
    \E r \in Slots :
        LET q == req[r] IN
        /\ Done(r) /\ q.op = "create_file"
        /\ CallFailed(q, "file_insert")
        /\ CallFailed(q, "blob_remove")
        /\ BlobExists(q.path)
        /\ q.res.kind = "DatabaseError"


\* a create_file that failed because the name is taken in the folder: the
\* service raises the duplicate error itself, POST /files raises its database
\* error around it
FailsDuplicateName(q) ==
    /\ q.op = "create_file"
    /\ q.pc = "done"
    /\ \/ q.res = DuplicateFile
       \/ q.impl = "api" /\ q.res = DatabaseError("Error creating file in database", "error", Str(DuplicateFile))

\* C16: in the service's create_file and under POST /files alike, every blob
\* upload comes after an answered uniqueness check on table files, every
\* metadata insert comes after a successful upload, and a create_file that
\* fails because the name is taken has made no call that writes the blob
\* store, which is as it was before the request.
C16_CheckUploadInsert ==
    \A r \in Slots :
        LET q == req[r] IN
        q.op = "create_file" =>
            /\ \A i \in Calls(q, "blob_upload") :
                    \E j \in Calls(q, "file_exists") : j < i /\ q.log[j].ok
            /\ \A i \in Calls(q, "file_insert") :
                    \E j \in Calls(q, "blob_upload") : j < i /\ q.log[j].ok
            /\ FailsDuplicateName(q) =>
                    /\ Calls(q, "blob_upload") = {}
                    /\ Calls(q, "blob_remove") = {}
                    /\ blobs = q.pre.blobs


\* the names the checks of an upload look at: the name the blob is stored
\* under and, under the endpoints, the filename of the uploaded part
UploadedNames(q) ==
    LET cur == IF q.cur = {} THEN NoName ELSE (CHOOSE f \in q.cur : TRUE).name
        stored == CASE q.op = "create_file" -> q.name
                    [] q.impl = "api" /\ q.fpatch.has_name -> q.fpatch.name
                    [] OTHER -> cur
    IN IF q.impl = "api" THEN {stored, q.filename} ELSE {stored}

\* the request has come to its upload: POST /files at once, the service's
\* create_file after its uniqueness check, an update_file with content once
\* it has found the file
AtUpload(q) ==
    /\ q.pc = "done"
    /\ q.content # NoContent
    /\ CASE q.op = "create_file" ->
                q.impl = "svc" => CallOk(q, "file_exists") /\ q.res # DuplicateFile
         [] q.op = "update_file" -> q.cur # {}
         [] OTHER -> FALSE

BlobCalls(q) ==
    {i \in 1..Len(q.log) : q.log[i].call \in {"bucket_list", "blob_upload", "blob_remove", "blob_download", "blob_sign"}}

\* C17: an upload under a name that does not end in .tex (letter case
\* ignored) is answered with the invalid-file-type failure before any call
\* on the blob store, with both stores as they were; an upload whose names
\* end in .tex, in any letter case, goes on to the blob store.
C17_TexOnly ==
    \A r \in Slots :
        LET q == req[r] IN
        AtUpload(q) =>
            IF \E n \in UploadedNames(q) : ~EndsWithTex(n)
            THEN /\ q.res = InvalidFileType
                 /\ BlobCalls(q) = {}
                 /\ files = q.pre.files
                 /\ blobs = q.pre.blobs
            ELSE Calls(q, "bucket_list") # {}


\* the outcomes a caller of the service is promised: success, not found, a
\* duplicate name with its marker, the invalid-file-type failure, or the
\* generic database error of db_error_handler
Normalised(e) ==
    \/ e = NoError
    \/ e.kind = "NotFoundError"
    \/ e.dtext \in {"DUPLICATE_FILE", "DUPLICATE_FOLDER"}
    \/ e = InvalidFileType
    \/ e.kind = "DatabaseError" /\ e.dkey = "error"

\* C18: every operation of FilesystemService, synchronous or async, returns
\* or fails with NotFound, DuplicateName, InvalidContent or the generic
\* database error; whatever else a store adapter raises, also while an async
\* store call is awaited, reaches the caller as the generic DatabaseError.
C18_ErrorNormalisation ==
    \A r \in Slots :
        LET q == req[r] IN
        (Done(r) /\ q.impl = "svc") =>
            /\ Normalised(q.res)
            /\ (\E call \in {"blob_upload", "blob_remove", "blob_download", "blob_sign"} : CallFailed(q, call))
                    => q.res.kind = "DatabaseError"


\* the row request q found, once it has found one
Current(q) == CHOOSE f \in q.cur : TRUE

\* C19: an update_file with new content, on a file of the caller whose blob
\* was at the row's storage path when the request began and with no store
\* call failing, succeeds, and then the blob at the storage path of the row
\* holds the new content (what a download of the file reads).
C19_ContentOverwritten ==
    \A r \in Slots :
        LET q == req[r] IN
        (/\ Done(r) /\ q.op = "update_file" /\ q.content # NoContent
         /\ q.cur # {}
         /\ \E b \in q.pre.blobs : b.path = Current(q).storage_path
         /\ NoFault(q))
            => /\ q.res = NoError
               /\ \A f \in MatchFile(q.id, q.user) : Blob(f.storage_path, q.content) \in blobs


\* C20: an update_file that sets name and/or folder_id and brings no content
\* changes, in the row it names, exactly the fields it sets: every other row,
\* the row's id, owner and storage_path, and the whole blob store are as they
\* were when the request began (a failed one changes nothing).
C20_RenameLeavesBlob ==
    \A r \in Slots :
        LET q == req[r]
            named(f) == f.id = q.id /\ f.user_id = q.user /\ q.res = NoError
            renamed(f) == [f EXCEPT !.name = IF q.fpatch.has_name THEN q.fpatch.name ELSE @,
                                    !.folder_id = IF q.fpatch.has_parent THEN q.fpatch.parent ELSE @]
        IN (Done(r) /\ q.op = "update_file" /\ q.content = NoContent)
            => /\ blobs = q.pre.blobs
               /\ files = {IF named(f) THEN renamed(f) ELSE f : f \in q.pre.files}

C20_Witness ==
    \E r \in Slots :
        LET q == req[r] IN
        /\ Done(r) /\ q.op = "update_file" /\ q.content = NoContent
        /\ q.res = NoError
        /\ \E f \in q.pre.files, g \in files :
            /\ g.id = f.id /\ g.id = q.id
            /\ g.name # f.name
            /\ g.storage_path = f.storage_path
            /\ g.storage_path.base # Basename(g.name)
            /\ BlobExists(g.storage_path)


\* C21: a delete_folder that succeeds has removed the one folder row with
\* its id and owner and nothing else: the child folders, the file rows (those
\* of the folder too) and the blobs are as they were; on an id the owner has
\* no folder with it answers NotFound, and a delete_folder that fails has
\* changed nothing.
C21_NoCascade ==
    \A r \in Slots :
        LET q == req[r]
            hit == {f \in q.pre.folders : f.id = q.id /\ f.user_id = q.user}
        IN (Done(r) /\ q.op = "delete_folder")
            => /\ files = q.pre.files
               /\ blobs = q.pre.blobs
               /\ IF q.res = NoError
                  THEN Cardinality(hit) = 1 /\ folders = q.pre.folders \ hit
                  ELSE folders = q.pre.folders
               /\ (hit = {} /\ NoFault(q)) => q.res = FolderNotFound(q.id)

C21_Witness ==
    \E r \in Slots :
        LET q == req[r] IN
        /\ Done(r) /\ q.op = "delete_folder" /\ q.res = NoError
        /\ \A f \in folders : f.id # q.id
        /\ \E f \in folders : f.parent_id = q.id
        /\ \E f \in files : f.folder_id = q.id /\ BlobExists(f.storage_path)


\* C22: in every state create_folder, update_folder and delete_folder reach,
\* the folders of each owner form a forest: the parent_id links from a folder
\* never lead back to it.
C22_ForestInvariant ==
    \A u \in Users : \A f \in Own(u) : ~OnCycle(Own(u), f)


\* C23: a create_file that succeeds has stored a row whose storage_path is
\* the owner, the folder_id if one is set, and the base name of the file
\* name, whatever storage_path the caller put in the request, and a blob
\* with the request's content is at that path.
C23_StoragePathDerived ==
    \A r \in Slots :
        LET q == req[r]
            derived == [user |-> q.user, folder |-> q.parent, base |-> [q.name EXCEPT !.dir = ""]]
        IN (Done(r) /\ q.op = "create_file" /\ q.res = NoError)
            => /\ \E f \in files \ q.pre.files :
                    /\ q.data = {f}
                    /\ f.name = q.name /\ f.folder_id = q.parent /\ f.user_id = q.user
                    /\ f.storage_path = derived
               /\ Blob(derived, q.content) \in blobs

C23_Witness ==
    \E r \in Slots :
        LET q == req[r] IN
        /\ Done(r) /\ q.op = "create_file" /\ q.res = NoError
        /\ q.given # NoPath
        /\ q.name.dir # "" /\ q.parent # Null
        /\ \E f \in files : f.name = q.name /\ f.storage_path # q.given /\ f.storage_path.base # f.name


\* C24: an upload whose computed storage path held a blob when the request
\* began is answered with the duplicate-file storage failure and leaves that
\* blob as it was, also when the listing of the bucket fails.
C24_NoSilentOverwrite ==
    \A r \in Slots :
        LET q == req[r]
            there == {b \in q.pre.blobs : b.path = q.path}
        IN (Done(r) /\ Calls(q, "bucket_list") # {} /\ there # {})
            => /\ q.res = Escapes(q, DuplicateBlob)
               /\ there \subseteq blobs


\* the places a tree holds folder id at: position i of the top list
\* (<<Null, i>>) or position i of the subfolder list of node n (<<n.id, i>>);
\* the file rows a tree holds
TreePlaces(t, id) ==
    {<<Null, i>> : i \in {k \in 1..Len(t.folders) : t.folders[k] = id}}
    \cup UNION {{<<n.id, i>> : i \in {k \in 1..Len(n.subfolders) : n.subfolders[k] = id}} : n \in t.nodes}
TreeFiles(t) == t.files \cup UNION {n.files : n \in t.nodes}

\* C25: in every state the owner's creates, updates and deletes reach, the
\* tree get_filesystem_tree returns holds every folder row of the owner at
\* exactly one place and every file row of the owner, at the top or in the
\* files of a folder of the tree.
C25_TreeComplete ==
    \A r \in Slots :
        LET q == req[r]
            t == q.tree
        IN (Done(r) /\ q.op = "get_filesystem_tree" /\ q.res = NoError)
            => /\ \A f \in Own(q.user) : Cardinality(TreePlaces(t, f.id)) = 1
               /\ TreeFiles(t) = {f \in files : f.user_id = q.user}


\* C26: a tree get_filesystem_tree returns while update_folder requests move
\* folders between its selects holds no folder id at more than one place:
\* not twice in a list, and not at the top and in a subfolder list too.
C26_TreeUnderMoves ==
    \A r \in Slots :
        LET q == req[r] IN
        (Done(r) /\ q.op = "get_filesystem_tree" /\ q.res = NoError)
            => \A f \in Range(q.list) : Cardinality(TreePlaces(q.tree, f.id)) <= 1


\* C27: once every request of a run of successful create_file, update_file
\* and delete_file calls has completed, every blob is at the storage_path of
\* exactly one file row and no two file rows have the same storage_path.
C27_NoOrphanBlobs ==
    (\A r \in Slots : Resting(r) \/ Done(r))
        => /\ \A b \in blobs : Cardinality({f \in files : f.storage_path = b.path}) = 1
           /\ \A f, g \in files : f # g => f.storage_path # g.storage_path


\* C28: a create_file under a name ending in .tex that no file row of the
\* owner has in the folder, with every store call answering, succeeds: a
\* blob a renamed or moved file left at the path does not make it a
\* duplicate.
C28_FreeNameCreatable ==
    \A r \in Slots :
        LET q == req[r] IN
        (/\ Done(r) /\ q.op = "create_file"
         /\ EndsWithTex(q.name) /\ EndsWithTex(q.filename)
         /\ ~\E f \in q.pre.files : f.user_id = q.user /\ f.folder_id = q.parent /\ f.name = q.name
         /\ NoFault(q))
            => q.res = NoError


\* C29: when two concurrent POST /files of one (owner, folder_id, name) have
\* both finished, the row either of them committed still has a blob at its
\* storage_path: the clean-up of the request that failed has not removed it.
C29_CleanupSparesCommitted ==
    (/\ \A r \in Slots : Done(r) /\ req[r].op = "create_file" /\ req[r].impl = "api"
     /\ req[1].user = req[2].user /\ req[1].parent = req[2].parent /\ req[1].name = req[2].name)
        => \A r \in Slots : \A f \in req[r].data \cap files : BlobExists(f.storage_path)


\* C30: whatever a request of one owner does, and whether it succeeds or
\* fails, the folder rows and file rows of every other owner and the blobs
\* under every other owner's prefix are as they were when it began, and the
\* rows it added carry its owner.
C30_CrossOwnerFrame ==
    \A r \in Slots :
        LET q == req[r] IN
        ~Resting(r) =>
            /\ {f \in folders : f.user_id # q.user} = {f \in q.pre.folders : f.user_id # q.user}
            /\ {f \in files : f.user_id # q.user} = {f \in q.pre.files : f.user_id # q.user}
            /\ {b \in blobs : b.path.user # q.user} = {b \in q.pre.blobs : b.path.user # q.user}
            /\ \A f \in (folders \ q.pre.folders) \cup (files \ q.pre.files) : f.user_id = q.user

C30_Witness ==
    \E r \in Slots :
        LET q == req[r] IN
        /\ Done(r) /\ q.op = "delete_file" /\ q.res = NoError
        /\ blobs # q.pre.blobs /\ files # q.pre.files
        /\ \E f \in files : f.user_id # q.user /\ BlobExists(f.storage_path)


====
